---- MODULE Spec2Model ----
(***************************************************************************)
(* A model of the 3W toolkit's miscellaneous sub-module (toolkit/misc.py): *)
(* the instance catalog (label_and_file_generator and                      *)
(* get_all_labels_and_files), the single-instance reader (load_instance),  *)
(* the thread-pool bulk operations (load_instances,                        *)
(* count_properties_instances, calc_stats_instances) and the resampler     *)
(* (resample).                                                             *)
(*                                                                         *)
(* Conventions.                                                            *)
(*  - A string is a sequence of tokens; no token is a prefix of another,   *)
(*    so startswith, split("_"), Path.stem and Path.suffix are computed    *)
(*    token by token.                                                      *)
(*  - A nullable cell is a set: {} is null (NaN/None), {v} is the value v. *)
(*  - A float label is held in halves: the float f is the integer 2*f, so  *)
(*    that the sentinel 0.5 of resample is the integer 1.                  *)
(***************************************************************************)
EXTENDS Integers, Sequences, FiniteSets, TLC

VARIABLES
    corpus,      \* catalog: the dataset root, top-level name -> entry
    gen,         \* catalog: the frame of the running generator
    pass,        \* catalog: which enumeration is running (1..4), 5 when all are done
    lists,       \* catalog: the list each enumeration has built so far
    rd_instance, \* reader: the (label, fp) tuple handed to load_instance
    rd_result,   \* reader: what load_instance returned or raised
    call,        \* bulk: the operation called and its arguments
    pool,        \* bulk: the ThreadPool (handler states, queues, workers)
    collected,   \* bulk: dfs / ps, the results appended by the for loop
    outcome,     \* bulk: what the call returned or raised
    data,        \* resample: the caller's table object (mutated in place)
    rs_args,     \* resample: the arguments n and class_number
    rs_calls,    \* resample: what each call so far returned or raised
    rs_input     \* resample: the table as it was before the first call

catVars == <<corpus, gen, pass, lists>>
rdVars == <<rd_instance, rd_result>>
bulkVars == <<call, pool, collected, outcome>>
rsVars == <<data, rs_args, rs_calls, rs_input>>
vars == <<catVars, rdVars, bulkVars, rsVars>>

Idle == <<>>

(***************************************************************************)
(* Strings and paths                                                       *)
(***************************************************************************)

Range(s) == {s[k] : k \in 1..Len(s)}

\* The sequence f[1], ..., f[n]
RECURSIVE Tuple(_, _)
Tuple(f, n) == IF n = 0 THEN <<>> ELSE Append(Tuple(f, n - 1), f[n])

\* str.startswith(prefix)
StartsWith(s, prefix) ==
    /\ Len(s) >= Len(prefix)
    /\ SubSeq(s, 1, Len(prefix)) = prefix

\* The position of the last "." of a name, 0 when there is none (str.rfind)
LastDot(name) ==
    LET dots == {k \in 1..Len(name) : name[k] = "."}
    IN IF dots = {} THEN 0 ELSE CHOOSE k \in dots : \A j \in dots : j <= k

\* pathlib: a suffix starts at the last dot, unless that dot is the first or
\* the last character of the name
HasSuffix(name) == LastDot(name) > 1 /\ LastDot(name) < Len(name)

PathSuffix(name) ==
    IF HasSuffix(name) THEN SubSeq(name, LastDot(name), Len(name)) ELSE <<>>

PathStem(name) ==
    IF HasSuffix(name) THEN SubSeq(name, 1, LastDot(name) - 1) ELSE name

Digits == {"0", "1", "2", "3", "4", "5", "6", "7", "8", "9"}

DigitValue(d) ==
    CASE d = "0" -> 0 [] d = "1" -> 1 [] d = "2" -> 2 [] d = "3" -> 3
      [] d = "4" -> 4 [] d = "5" -> 5 [] d = "6" -> 6 [] d = "7" -> 7
      [] d = "8" -> 8 [] d = "9" -> 9

RECURSIVE DecimalValue(_)
DecimalValue(ds) ==
    IF ds = <<>> THEN 0
    ELSE 10 * DecimalValue(SubSeq(ds, 1, Len(ds) - 1)) + DigitValue(ds[Len(ds)])

\* int(s) for a string of sign and digit tokens: an optional sign and at
\* least one digit parse, anything else raises ValueError
IntParses(s) ==
    LET body == IF s # <<>> /\ s[1] \in {"-", "+"} THEN Tail(s) ELSE s
    IN body # <<>> /\ Range(body) \subseteq Digits

IntValue(s) ==
    IF s[1] = "-" THEN 0 - DecimalValue(Tail(s))
    ELSE IF s[1] = "+" THEN DecimalValue(Tail(s))
    ELSE DecimalValue(s)

\* str.split("_"): the pieces between the "_" tokens
RECURSIVE Split(_)
Split(s) ==
    LET seps == {k \in 1..Len(s) : s[k] = "_"}
    IN IF seps = {} THEN <<s>>
       ELSE LET k == CHOOSE j \in seps : \A i \in seps : j <= i
            IN <<SubSeq(s, 1, k - 1)>> \o Split(SubSeq(s, k + 1, Len(s)))

PARQUET_EXTENSION == <<".", "parquet">>

(***************************************************************************)
(* Instance catalog: label_and_file_generator, get_all_labels_and_files    *)
(***************************************************************************)

MaxEntries == 2
MaxFiles == 2

\* The names the dataset root may hold, in the order the file system lists them
TopOrder == << <<"0">>, <<"1">>, <<"-", "1">>, <<"x">>, <<"1", ".", "x">> >>

\* The names a label directory may hold, in the order the file system lists them
FileOrder ==
    << <<"W", "_", "1", ".", "parquet">>,
       <<"SIMULATED", "_", "1", ".", "parquet">>,
       <<"DRAWN", "_", "1", ".", "parquet">>,
       <<"W", "_", "1", ".", "csv">> >>

TopNames == Range(TopOrder)
FileNames == Range(FileOrder)

\* Path.iterdir(): the entries of a directory, in the file system's order
Listing(order, present) == SelectSeq(order, LAMBDA x : x \in present)

\* A top-level entry: a plain file, a directory that cannot be listed, or a
\* directory with its files
Entries ==
    {[kind |-> "file", files |-> {}], [kind |-> "locked", files |-> {}]}
    \cup {[kind |-> "dir", files |-> F] :
              F \in {G \in SUBSET FileNames : Cardinality(G) <= MaxFiles}}

Corpora ==
    UNION {[S -> Entries] :
              S \in {T \in SUBSET TopNames : Cardinality(T) <= MaxEntries}}

Flags(real, simulated, drawn) ==
    [real |-> real, simulated |-> simulated, drawn |-> drawn]

\* The enumerations run one after the other: the three single-source lists of
\* get_all_labels_and_files, then one enumeration of all three sources
PassFlags ==
    << Flags(TRUE, FALSE, FALSE), Flags(FALSE, TRUE, FALSE),
       Flags(FALSE, FALSE, TRUE), Flags(TRUE, TRUE, TRUE) >>

NoPass == Len(PassFlags) + 1

\* The condition under which a Parquet file is yielded
WantedDrawnAsReal(flags, stem) ==
    \/ flags.simulated /\ StartsWith(stem, <<"SIMULATED">>)
    \/ flags.drawn /\ StartsWith(stem, <<"DRAWN">>)
    \/ flags.real /\ ~StartsWith(stem, <<"SIMULATED">>)

Wanted(flags, stem) ==
    \/ flags.simulated /\ StartsWith(stem, <<"SIMULATED">>)
    \/ flags.drawn /\ StartsWith(stem, <<"DRAWN">>)
    \/ /\ flags.real
       /\ ~StartsWith(stem, <<"SIMULATED">>)
       /\ ~StartsWith(stem, <<"DRAWN">>)

\* A generator that has not run yet: the root listing is still to iterate;
\* at_yield when it is suspended at the yield, closed and late once close()
\* was called on it
NewGenerator(flags) ==
    [flags |-> flags, outer |-> Listing(TopOrder, DOMAIN corpus),
     cur |-> <<>>, label |-> 0, inner |-> <<>>,
     at_yield |-> FALSE, closed |-> "", late |-> <<>>]

CatalogFrame == UNCHANGED <<rdVars, bulkVars, rsVars>>

CatalogInit ==
    /\ corpus \in Corpora
    /\ pass = 1
    /\ gen = NewGenerator(PassFlags[1])
    /\ lists = [k \in 1..Len(PassFlags) |-> <<>>]
    /\ rd_instance = Idle /\ rd_result = Idle
    /\ call = Idle /\ pool = Idle /\ collected = Idle /\ outcome = Idle
    /\ data = Idle /\ rs_args = Idle /\ rs_calls = Idle /\ rs_input = Idle

\* for i in Path(PATH_DATASET).iterdir(): try: if i.is_dir(): label = int(i.stem);
\* for fp in i.iterdir(): ... except: pass
\* A plain file is skipped; int() raising ValueError and iterdir() raising
\* PermissionError are swallowed by the bare except
OuterNext ==
    /\ pass \in 1..Len(PassFlags)
    /\ gen.closed = ""
    /\ gen.cur = <<>>
    /\ gen.outer # <<>>
    /\ LET i == Head(gen.outer)
           entry == corpus[i]
       IN gen' =
            IF entry.kind = "dir" /\ IntParses(PathStem(i))
            THEN [gen EXCEPT !.outer = Tail(@), !.cur = i,
                             !.label = IntValue(PathStem(i)),
                             !.inner = Listing(FileOrder, entry.files),
                             !.at_yield = FALSE]
            ELSE [gen EXCEPT !.outer = Tail(@), !.at_yield = FALSE]
    /\ UNCHANGED <<corpus, pass, lists>>
    /\ CatalogFrame

\* for fp in i.iterdir(): if fp.suffix == PARQUET_EXTENSION: if (...): yield label, fp
InnerNext ==
    /\ pass \in 1..Len(PassFlags)
    /\ gen.closed = ""
    /\ gen.cur # <<>>
    /\ gen.inner # <<>>
    /\ LET fp == Head(gen.inner)
           yields == PathSuffix(fp) = PARQUET_EXTENSION /\ Wanted(gen.flags, PathStem(fp))
       IN /\ lists' =
               IF yields
               THEN [lists EXCEPT ![pass] = Append(@, <<gen.label, <<gen.cur, fp>>>>)]
               ELSE lists
          /\ gen' = [gen EXCEPT !.inner = Tail(@), !.at_yield = yields]
    /\ UNCHANGED <<corpus, pass>>
    /\ CatalogFrame

\* The inner for loop ends: back to the outer loop
InnerDone ==
    /\ pass \in 1..Len(PassFlags)
    /\ gen.closed = ""
    /\ gen.cur # <<>>
    /\ gen.inner = <<>>
    /\ gen' = [gen EXCEPT !.cur = <<>>, !.at_yield = FALSE]
    /\ UNCHANGED <<corpus, pass, lists>>
    /\ CatalogFrame

\* The outer for loop ends: the generator is exhausted, list() returns and the
\* next enumeration starts
OuterDone ==
    /\ pass \in 1..Len(PassFlags)
    /\ gen.closed = ""
    /\ gen.cur = <<>>
    /\ gen.outer = <<>>
    /\ pass' = pass + 1
    /\ gen' = IF pass < Len(PassFlags) THEN NewGenerator(PassFlags[pass + 1]) ELSE Idle
    /\ UNCHANGED <<corpus, lists>>
    /\ CatalogFrame

\* The first pair that the outer loop yields from the entries left
RECURSIVE NextYield(_, _)
NextYield(flags, outer) ==
    IF outer = <<>> THEN <<>>
    ELSE LET i == Head(outer)
             entry == corpus[i]
             wanted == IF entry.kind = "dir"
                       THEN SelectSeq(Listing(FileOrder, entry.files),
                                      LAMBDA fp : /\ PathSuffix(fp) = PARQUET_EXTENSION
                                                  /\ Wanted(flags, PathStem(fp)))
                       ELSE <<>>
         IN IF entry.kind = "dir" /\ IntParses(PathStem(i)) /\ wanted # <<>>
            THEN << <<IntValue(PathStem(i)), <<i, Head(wanted)>>>> >>
            ELSE NextYield(flags, Tail(outer))

\* The consumer stops after a pair and calls close(): GeneratorExit is raised
\* at the yield, inside the try; the bare except swallows it and the outer
\* loop goes on with the next entry. close() returns when the generator ends
\* without another yield and raises RuntimeError when it yields again
Close ==
    /\ pass \in 1..Len(PassFlags)
    /\ gen.closed = ""
    /\ gen.at_yield
    /\ LET late == NextYield(gen.flags, gen.outer)
       IN gen' = [gen EXCEPT !.at_yield = FALSE, !.cur = <<>>, !.inner = <<>>,
                             !.late = late,
                             !.closed = IF late = <<>> THEN "returned"
                                        ELSE "RuntimeError"]
    /\ UNCHANGED <<corpus, pass, lists>>
    /\ CatalogFrame

CatalogNext ==
    \/ OuterNext
    \/ InnerNext
    \/ InnerDone
    \/ OuterDone
    \/ Close

SpecCatalog == CatalogInit /\ [][CatalogNext]_vars

real_instances == Range(lists[1])
simulated_instances == Range(lists[2])
drawn_instances == Range(lists[3])
all_instances == Range(lists[4])

\* C5: once every enumeration has ended, the set enumerated with the three
\* flags true equals the union of the three single-flag sets, and the three
\* single-flag sets are pairwise disjoint.
CatalogPartition ==
    pass = NoPass =>
        /\ all_instances = real_instances \cup simulated_instances \cup drawn_instances
        /\ real_instances \cap simulated_instances = {}
        /\ real_instances \cap drawn_instances = {}
        /\ simulated_instances \cap drawn_instances = {}

\* A corpus with a file of each provenance has been enumerated four times
CatalogPartitionWitness ==
    /\ pass = NoPass
    /\ real_instances # {}
    /\ drawn_instances # {}
    /\ all_instances # real_instances \cup drawn_instances

\* The name of a directory is a non-negative integer: digits only
IsNonNegativeIntegerName(name) == name # <<>> /\ Range(name) \subseteq Digits

\* C10: every pair the enumeration yields comes from a top-level directory
\* whose name is a non-negative integer; no other entry contributes a pair.
OnlyLabelDirectoriesYield ==
    \A k \in 1..Len(PassFlags) : \A p \in Range(lists[k]) :
        IsNonNegativeIntegerName(p[2][1])

(***************************************************************************)
(* Tables (pandas.DataFrame) and instance files                            *)
(***************************************************************************)

\* The columns of a data file: the timestamp, which is the index of the table
\* read from the file, then the variables, then the class
COLUMNS_DATA_FILES == <<"timestamp", "P-PDG", "state", "class">>

\* A table: the name of its index ("timestamp", or "" for a RangeIndex), its
\* index values, its column names and its rows, one cell per column
Table(index_name, index, columns, rows) ==
    [index_name |-> index_name, index |-> index, columns |-> columns, rows |-> rows]

\* The tables of a data file with the given columns and up to max_rows rows,
\* timestamped 1, 2, ...
FileTables(columns, cells, max_rows) ==
    UNION {{Table("timestamp", [k \in 1..n |-> k], columns, rows) :
               rows \in [1..n -> [1..Len(columns) -> cells]]} : n \in 0..max_rows}

ColumnPosition(columns, name) == CHOOSE k \in 1..Len(columns) : columns[k] = name

\* df[name] = value: overwrites the column, or appends it when it is new
SetColumn(df, name, value) ==
    IF name \in Range(df.columns)
    THEN [df EXCEPT !.rows =
            [r \in 1..Len(@) |->
                [@[r] EXCEPT ![ColumnPosition(df.columns, name)] = {value}]]]
    ELSE [df EXCEPT !.columns = Append(@, name),
                    !.rows = [r \in 1..Len(@) |-> Append(@[r], {value})]]

\* df[names]: the named columns, in the order of names
SelectColumns(df, names) ==
    [df EXCEPT !.columns = names,
               !.rows = [r \in 1..Len(@) |->
                           [k \in 1..Len(names) |->
                               @[r][ColumnPosition(df.columns, names[k])]]]]

(***************************************************************************)
(* Single-instance reader: load_instance                                   *)
(***************************************************************************)

Returned(value) == [kind |-> "returned", value |-> value]

Raised(type, message) == [kind |-> "raised", type |-> type, message |-> message]

\* raise Exception(f"error reading file {fp}: {e}"): the text of e, and the
\* paths and column lists that text spells out
ErrorReadingFile(fp, e, named) ==
    Raised("Exception",
           [text |-> "error reading file", path |-> fp.name, cause |-> e, named |-> named])

LoadWellAsId(instance) ==
    LET fp == instance.fp
        parts == Split(PathStem(fp.name))
        expected == Tail(COLUMNS_DATA_FILES)
        df == fp.table
    IN IF Len(parts) # 2 \/ ~fp.readable \/ df.columns # expected
       THEN ErrorReadingFile(fp, "error", {})
       ELSE Returned(SelectColumns(
                SetColumn(SetColumn(SetColumn(df, "label", instance.label),
                                    "well", parts[1]), "id", parts[1]),
                <<"label", "well", "id">> \o expected))

\* The body of load_instance. A stem that does not split in two raises
\* ValueError at the unpacking; read_parquet raises on an unreadable file;
\* comparing column lists of different lengths raises ValueError before the
\* assertion is evaluated; the assertion fails when a name differs.
load_instance(instance) ==
    LET fp == instance.fp
        parts == Split(PathStem(fp.name))
        expected == Tail(COLUMNS_DATA_FILES)
        df == fp.table
    IN IF Len(parts) # 2
       THEN ErrorReadingFile(fp, "ValueError: wrong number of values to unpack", {})
       ELSE IF ~fp.readable
       THEN ErrorReadingFile(fp, "OSError: cannot read the file", {})
       ELSE IF Len(df.columns) # Len(expected)
       THEN ErrorReadingFile(fp, "ValueError: Lengths must match to compare", {})
       ELSE IF df.columns # expected
       THEN ErrorReadingFile(fp, "AssertionError: invalid columns in the file",
                             {fp.name, df.columns})
       ELSE Returned(SelectColumns(
                SetColumn(SetColumn(SetColumn(df, "label", instance.label),
                                    "well", parts[1]), "id", parts[2]),
                <<"label", "well", "id">> \o expected))

MaxReaderRows == 2

ReaderStems ==
    { <<"W", "_", "1">>, <<"SIMULATED", "_", "2">>, <<"W">>, <<"_", "1">>,
      <<"W", "_", "1", "_", "2">> }

ReaderColumns ==
    { Tail(COLUMNS_DATA_FILES), <<"state", "P-PDG", "class">>,
      <<"P-PDG", "state", "klass">>, <<"P-PDG", "class">>,
      <<"P-PDG", "state", "class", "extra">> }

ReaderLabels == {0, 3}

ReaderInstances ==
    {[label |-> l, fp |-> [name |-> stem \o PARQUET_EXTENSION, readable |-> rd, table |-> t]] :
        l \in ReaderLabels, stem \in ReaderStems, rd \in BOOLEAN,
        t \in UNION {FileTables(c, {{}, {1}}, MaxReaderRows) : c \in ReaderColumns}}

ReaderInit ==
    /\ rd_instance \in ReaderInstances
    /\ rd_result = Idle
    /\ corpus = Idle /\ gen = Idle /\ pass = Idle /\ lists = Idle
    /\ call = Idle /\ pool = Idle /\ collected = Idle /\ outcome = Idle
    /\ data = Idle /\ rs_args = Idle /\ rs_calls = Idle /\ rs_input = Idle

\* A caller hands the instance to load_instance
LoadInstance ==
    /\ rd_instance # Idle
    /\ rd_result = Idle
    /\ rd_result' = load_instance(rd_instance)
    /\ UNCHANGED <<rd_instance, catVars, bulkVars, rsVars>>

ReaderNext == LoadInstance

SpecReader == ReaderInit /\ [][ReaderNext]_vars

\* A readable file whose stem is A_B and whose columns are the schema's
WellFormed(instance) ==
    /\ Len(Split(PathStem(instance.fp.name))) = 2
    /\ instance.fp.readable
    /\ instance.fp.table.columns = Tail(COLUMNS_DATA_FILES)

\* C8: for a well-formed file with stem A_B under label L, load_instance
\* returns a table indexed as the file, whose columns are label, well, id and
\* then the schema, and whose every row is (L, A, B) followed by the file's row.
ReaderRoundTrip ==
    (rd_result # Idle /\ WellFormed(rd_instance)) =>
        LET file == rd_instance.fp.table
            parts == Split(PathStem(rd_instance.fp.name))
        IN /\ rd_result.kind = "returned"
           /\ rd_result.value.columns = <<"label", "well", "id">> \o Tail(COLUMNS_DATA_FILES)
           /\ rd_result.value.index = file.index
           /\ Len(rd_result.value.rows) = Len(file.rows)
           /\ \A r \in 1..Len(file.rows) :
                 rd_result.value.rows[r] =
                    <<{rd_instance.label}, {parts[1]}, {parts[2]}>> \o file.rows[r]

\* A well-formed file with rows has been loaded
ReaderRoundTripWitness ==
    /\ rd_result # Idle
    /\ WellFormed(rd_instance)
    /\ Len(rd_instance.fp.table.rows) = MaxReaderRows
    /\ rd_result.kind = "returned"

\* A readable file with a well-formed name whose columns are not the schema's
SchemaMismatch(instance) ==
    /\ Len(Split(PathStem(instance.fp.name))) = 2
    /\ instance.fp.readable
    /\ instance.fp.table.columns # Tail(COLUMNS_DATA_FILES)

\* C9: a schema mismatch fails with a SchemaError, an error kind other than the
\* one raised for an unreadable file or a malformed name, whose message names
\* the file path and the offending column list.
SchemaMismatchRaisesSchemaError ==
    (rd_result # Idle /\ SchemaMismatch(rd_instance)) =>
        /\ rd_result.kind = "raised"
        /\ rd_result.type = "SchemaError"
        /\ rd_result.message.path = rd_instance.fp.name
        /\ rd_instance.fp.table.columns \in rd_result.message.named

(***************************************************************************)
(* Resampler: resample                                                     *)
(***************************************************************************)

MaxRows == 3
MaxCalls == 2

\* Floats are held in halves
Float(v) == 2 * v
Sentinel == 1
TransientOffset == 100

RECURSIVE Gcd(_, _)
Gcd(a, b) == IF b = 0 THEN a ELSE Gcd(b, a % b)

\* The exact quotient num / den, in lowest terms
Fraction(num, den) == <<num \div Gcd(num, den), den \div Gcd(num, den)>>

Max(S) == CHOOSE x \in S : \A y \in S : y <= x

RECURSIVE Ascending(_)
Ascending(S) ==
    IF S = {} THEN <<>>
    ELSE LET x == CHOOSE y \in S : \A z \in S : y <= z
         IN <<x>> \o Ascending(S \ {x})

\* Keys taken from row numbers that start at 1
GroupKeyFromOne(i, n) == IF n > 0 THEN (i + 1) \div n ELSE 1

\* data.index // n for the position i of a RangeIndex: the floor of i / n;
\* for n = 0 pandas gives NaN at position 0 and +inf (here: one key) elsewhere
GroupKey(i, n) ==
    IF n > 0 THEN i \div n
    ELSE IF n < 0 THEN 0 - ((i + (0 - n) - 1) \div (0 - n))
    ELSE 1

\* groupby drops the rows whose key is NaN
KeyIsNaN(i, n) == n = 0 /\ i = 0

\* groupby(data.index // n): the groups in ascending key order, each the
\* ascending row numbers (1-based) that share the key
Blocks(N, n) ==
    LET kept == {i \in 0..(N - 1) : ~KeyIsNaN(i, n)}
        keys == Ascending({GroupKey(i, n) : i \in kept})
    IN Tuple([k \in 1..Len(keys) |->
                Ascending({i + 1 : i \in {j \in kept : GroupKey(j, n) = keys[k]}})],
             Len(keys))

\* data.reset_index(inplace=True): a named index becomes the first column; a
\* RangeIndex becomes the column "index", or "level_0" when "index" exists, and
\* raises ValueError when both exist
ResetIndexName(df) ==
    IF df.index_name # "" THEN df.index_name
    ELSE IF "index" \notin Range(df.columns) THEN "index"
    ELSE "level_0"

ResetIndexRaises(df) == ResetIndexName(df) \in Range(df.columns)

ResetIndex(df) ==
    Table("", Tuple([k \in 1..Len(df.rows) |-> k - 1], Len(df.rows)),
          <<ResetIndexName(df)>> \o df.columns,
          Tuple([k \in 1..Len(df.rows) |-> <<{df.index[k]}>> \o df.rows[k]],
                Len(df.rows)))

\* The cells of a column, row by row
Column(df, name) ==
    Tuple([k \in 1..Len(df.rows) |-> df.rows[k][ColumnPosition(df.columns, name)]],
          Len(df.rows))

\* Series.astype(float)
AsFloat(cells, dtype) ==
    IF dtype = "float64" THEN cells
    ELSE Tuple([k \in 1..Len(cells) |-> {Float(v) : v \in cells[k]}], Len(cells))

\* Series.replace(old, new)
Replace(cells, old, new) ==
    Tuple([k \in 1..Len(cells) |-> {IF v = old THEN new ELSE v : v \in cells[k]}],
          Len(cells))

\* The non-null values of the cells of a block
BlockValues(cells, block) == UNION {cells[block[j]] : j \in 1..Len(block)}

\* groupby(...).max() of one group: nulls are skipped, all null gives null
GroupMax(cells, block) ==
    IF BlockValues(cells, block) = {} THEN {} ELSE {Max(BlockValues(cells, block))}

\* The sum of the non-null cells of a block
RECURSIVE BlockSum(_, _)
BlockSum(cells, block) ==
    IF block = <<>> THEN 0
    ELSE (IF cells[Head(block)] = {} THEN 0 ELSE Max(cells[Head(block)]))
         + BlockSum(cells, Tail(block))

\* groupby(...).mean() of one group: the mean of the non-null cells, null
\* when all are null
GroupMean(cells, block) ==
    LET present == {j \in 1..Len(block) : cells[block[j]] # {}}
    IN IF present = {} THEN {}
       ELSE {Fraction(BlockSum(cells, block), Cardinality(present))}

ResampleClassPlainMax(classes, blocks, class_number) ==
    [k \in 1..Len(blocks) |-> GroupMax(classes, blocks[k])]

ResampleClassSentinelKept(classes, blocks, class_number) ==
    LET transient == Float(class_number + TransientOffset)
        tempClassLabel == Replace(classes, transient, Sentinel)
    IN [k \in 1..Len(blocks) |-> GroupMax(tempClassLabel, blocks[k])]

\* The label reduction of resample: the transient label becomes the sentinel,
\* the maximum of each group is taken, the sentinel becomes the transient label
ResampleClass(classes, blocks, class_number) ==
    LET transient == Float(class_number + TransientOffset)
        tempClassLabel == Replace(classes, transient, Sentinel)
        resampleClass ==
            Tuple([k \in 1..Len(blocks) |-> GroupMax(tempClassLabel, blocks[k])],
                  Len(blocks))
    IN Replace(resampleClass, Sentinel, transient)

\* The columns that mean(numeric_only=True) keeps, the class aside: every
\* column but the timestamps
MeanColumns(df) ==
    SelectSeq(df.columns, LAMBDA c : c \notin {"timestamp", "class"})

\* resample(data, n, class_number): what it returns or raises, and the table
\* object it leaves to the caller
resample(d, n, class_number) ==
    IF ResetIndexRaises(d.frame)
    THEN [data |-> d, result |-> Raised("ValueError", "cannot insert, already exists")]
    ELSE
    LET df == ResetIndex(d.frame)
        blocks == Blocks(Len(df.rows), n)
        resampleTimestamp ==
            [k \in 1..Len(blocks) |-> Max(GroupMax(Column(df, "timestamp"), blocks[k]))]
        classes == AsFloat(Column(df, "class"), d.class_dtype)
        mutated ==
            [frame |-> [df EXCEPT !.rows =
                          [r \in 1..Len(@) |->
                              [@[r] EXCEPT ![ColumnPosition(df.columns, "class")] =
                                  classes[r]]]],
             class_dtype |-> "float64"]
        resampleClass == ResampleClass(classes, blocks, class_number)
        means == MeanColumns(df)
        dfResample ==
            Table("timestamp", resampleTimestamp, Append(means, "class"),
                  [k \in 1..Len(blocks) |->
                      [c \in 1..Len(means) |-> GroupMean(Column(df, means[c]), blocks[k])]
                      \o <<resampleClass[k]>>])
    IN [data |-> mutated, result |-> Returned(dfResample)]

\* The labels a row of an instance may carry: unlabeled, normal, a permanent
\* anomaly and two transient ones
RowLabels == {{}, {0}, {3}, {103}, {105}}

SensorCells == {{}, {1}, {2}}

ClassNumbers == {3, 5}

\* The rows of the tables resampled: every sensor cell on a normal row, and
\* every label beside one sensor value (the columns are reduced one by one)
ResampleRows ==
    {<<x, {0}>> : x \in SensorCells} \cup {<<{1}, l>> : l \in RowLabels}

ResampleTables ==
    UNION {{Table("timestamp", [k \in 1..N |-> k], <<"P-PDG", "class">>, rows) :
               rows \in [1..N -> ResampleRows]} : N \in 0..MaxRows}

ResampleInit ==
    /\ rs_input \in ResampleTables
    /\ data = [frame |-> rs_input, class_dtype |-> "int64"]
    /\ rs_args \in [n : (0 - 1)..(MaxRows + 1), class_number : ClassNumbers]
    /\ rs_calls = <<>>
    /\ corpus = Idle /\ gen = Idle /\ pass = Idle /\ lists = Idle
    /\ rd_instance = Idle /\ rd_result = Idle
    /\ call = Idle /\ pool = Idle /\ collected = Idle /\ outcome = Idle

\* The caller calls resample on its table object, again and again
Resample ==
    /\ Len(rs_calls) < MaxCalls
    /\ LET r == resample(data, rs_args.n, rs_args.class_number)
       IN /\ data' = r.data
          /\ rs_calls' = Append(rs_calls, r.result)
    /\ UNCHANGED <<rs_args, rs_input, catVars, rdVars, bulkVars>>

ResampleNext == Resample

SpecResample == ResampleInit /\ [][ResampleNext]_vars

\* The labels of the input rows of a block
BlockLabels(block) == BlockValues(Column(rs_input, "class"), block)

InputBlocks == Blocks(Len(rs_input.rows), rs_args.n)

TransientLabel == rs_args.class_number + TransientOffset

PermanentLabels == 1..9

\* The label of row k of the table a call returned
ResampledLabel(result, k) ==
    result.value.rows[k][ColumnPosition(result.value.columns, "class")]

\* C2 as claimed: a block with a row labeled class_number + 100 and no row
\* with a permanent label (1..9) resamples to class_number + 100.
TransientLabelPreserved ==
    \A j \in 1..Len(rs_calls) : \A k \in 1..Len(InputBlocks) :
        ( /\ TransientLabel \in BlockLabels(InputBlocks[k])
          /\ BlockLabels(InputBlocks[k]) \cap PermanentLabels = {} ) =>
            /\ rs_calls[j].kind = "returned"
            /\ ResampledLabel(rs_calls[j], k) = {Float(TransientLabel)}

\* C2 as amended: a block with a row labeled class_number + 100 and no other
\* label above 0 (no permanent label and no other transient label) resamples
\* to class_number + 100.
TransientLabelPreservedAmongNormal ==
    \A j \in 1..Len(rs_calls) : \A k \in 1..Len(InputBlocks) :
        ( /\ TransientLabel \in BlockLabels(InputBlocks[k])
          /\ \A l \in BlockLabels(InputBlocks[k]) : l = TransientLabel \/ l <= 0 ) =>
            /\ rs_calls[j].kind = "returned"
            /\ ResampledLabel(rs_calls[j], k) = {Float(TransientLabel)}

\* A call has resampled a block of several rows that holds the transient
\* label among normal rows
TransientLabelPreservedWitness ==
    /\ Len(rs_calls) >= 1
    /\ \E k \in 1..Len(InputBlocks) :
          /\ Len(InputBlocks[k]) >= 2
          /\ BlockLabels(InputBlocks[k]) = {0, TransientLabel}
          /\ ResampledLabel(rs_calls[1], k) = {Float(TransientLabel)}

\* C3 as claimed: a block with a row labeled class_number + 100 and a row with
\* a permanent label resamples to the largest permanent label of the block.
PermanentLabelOutranks ==
    \A j \in 1..Len(rs_calls) : \A k \in 1..Len(InputBlocks) :
        ( /\ TransientLabel \in BlockLabels(InputBlocks[k])
          /\ BlockLabels(InputBlocks[k]) \cap PermanentLabels # {} ) =>
            /\ rs_calls[j].kind = "returned"
            /\ ResampledLabel(rs_calls[j], k) =
                  {Float(Max(BlockLabels(InputBlocks[k]) \cap PermanentLabels))}

\* C3 as amended: such a block resamples to the largest label of the block
\* other than class_number + 100, which is the largest permanent label when
\* the block holds no other class's transient label.
LargestOtherLabelOutranks ==
    \A j \in 1..Len(rs_calls) : \A k \in 1..Len(InputBlocks) :
        ( /\ TransientLabel \in BlockLabels(InputBlocks[k])
          /\ BlockLabels(InputBlocks[k]) \cap PermanentLabels # {} ) =>
            /\ rs_calls[j].kind = "returned"
            /\ ResampledLabel(rs_calls[j], k) =
                  {Float(Max(BlockLabels(InputBlocks[k]) \ {TransientLabel}))}

\* A call has resampled a block that holds the transient label and a
\* permanent one, and nothing else
LargestOtherLabelOutranksWitness ==
    /\ Len(rs_calls) >= 1
    /\ \E k \in 1..Len(InputBlocks) :
          /\ BlockLabels(InputBlocks[k]) = {3, TransientLabel}
          /\ ResampledLabel(rs_calls[1], k) = {Float(3)}

\* C4: a call with block_size <= 0 or block_size above the row count raises
\* InvalidParameterError and returns no table.
InvalidBlockSizeRaises ==
    \A j \in 1..Len(rs_calls) :
        (rs_args.n <= 0 \/ rs_args.n > Len(rs_input.rows)) =>
            /\ rs_calls[j].kind = "raised"
            /\ rs_calls[j].type = "InvalidParameterError"

(***************************************************************************)
(* Property counters: count_properties_instance                            *)
(***************************************************************************)

\* Series.unique(): the distinct cells of a column, null being one of them
Unique(cells) == Range(cells)

\* df[var].isnull().all(): true of a column without rows
AllNull(cells) == \A k \in 1..Len(cells) : cells[k] = {}

\* A test without the check that the one value is not NaN
OneValueMaybeNaN(cells) == Cardinality(Unique(cells)) = 1

\* A test that drops the nulls before it counts the distinct values
OneValueIgnoringNaN(cells) == Cardinality(Unique(cells) \ {{}}) = 1

\* len(u_values) == 1 and not np.isnan(u_values)
OneValueNotNaN(cells) == Cardinality(Unique(cells)) = 1 /\ {} \notin Unique(cells)

\* for var in vars: the variables counted as missing and as frozen
MissingVariables(df, variables) ==
    {k \in 1..Len(variables) : AllNull(Column(df, variables[k]))}

FrozenVariables(df, variables) ==
    {k \in 1..Len(variables) : OneValueNotNaN(Column(df, variables[k]))}

\* The body of count_properties_instance: read_parquet raises on an
\* unreadable file and df["class"] raises KeyError when there is no such
\* column; the variables are all the columns but the last
count_properties_instance(instance) ==
    LET fp == instance.fp
        df == fp.table
        variables == SubSeq(df.columns, 1, Len(df.columns) - 1)
    IN IF ~fp.readable
       THEN ErrorReadingFile(fp, "OSError: cannot read the file", {})
       ELSE IF "class" \notin Range(df.columns)
       THEN Raised("KeyError", "class")
       ELSE Returned(
              [n_vars_missing |-> Cardinality(MissingVariables(df, variables)),
               n_vars_frozen |-> Cardinality(FrozenVariables(df, variables)),
               n_vars |-> Len(variables),
               n_obs |-> Len(df.rows),
               n_obs_unlabeled |->
                   Cardinality({k \in 1..Len(df.rows) : Column(df, "class")[k] = {}})])

(***************************************************************************)
(* Bulk operations over a ThreadPool: load_instances,                      *)
(* count_properties_instances, calc_stats_instances                        *)
(***************************************************************************)

MaxInstances == 3
Processes == 2

\* pd.concat(dfs): the tables one after the other; raises on an empty list
Concat(dfs) ==
    IF dfs = <<>> THEN Raised("ValueError", "No objects to concatenate")
    ELSE LET Join(field) ==
               LET RECURSIVE J(_)
                   J(k) == IF k = 0 THEN <<>> ELSE J(k - 1) \o dfs[k][field]
               IN J(Len(dfs))
         IN Returned(Table(dfs[1].index_name, Join("index"), dfs[1].columns, Join("rows")))

\* The sum of one key over the dicts that have it
RECURSIVE SumKey(_, _)
SumKey(ps, key) ==
    IF ps = <<>> THEN 0
    ELSE (IF key \in DOMAIN Head(ps) THEN Head(ps)[key] ELSE 0) + SumKey(Tail(ps), key)

SumCountersFirstOnly(ps) ==
    [key \in UNION {DOMAIN ps[k] : k \in 1..Len(ps)} |-> ps[1][key]]

\* dict(pd.DataFrame(ps).sum()): the column-wise sums, a dict without keys
\* when ps is empty
SumCounters(ps) ==
    [key \in UNION {DOMAIN ps[k] : k \in 1..Len(ps)} |-> SumKey(ps, key)]

\* f"{100*amount/total:.2f}% of {total}": the hundredths of a percent, rounded
\* half to even; the totals are numpy integers, whose division by zero gives
\* nan or inf and does not raise
Percentage(amount, total) ==
    IF total = 0 THEN [nan |-> TRUE, hundredths |-> 0, of |-> total]
    ELSE LET q == (10000 * amount) \div total
             twice == 2 * ((10000 * amount) % total)
         IN [nan |-> FALSE,
             hundredths |-> IF twice > total \/ (twice = total /\ q % 2 = 1)
                            THEN q + 1 ELSE q,
             of |-> total]

\* The body of calc_stats_instances after the counting: p["n_vars"] raises
\* KeyError when the dict has no such key
calc_stats(p) ==
    IF "n_vars" \notin DOMAIN p THEN Raised("KeyError", "n_vars")
    ELSE Returned(
           [MissingVariables |->
               [Amount |-> p.n_vars_missing,
                Percentage |-> Percentage(p.n_vars_missing, p.n_vars)],
            FrozenVariables |->
               [Amount |-> p.n_vars_frozen,
                Percentage |-> Percentage(p.n_vars_frozen, p.n_vars)],
            UnlabeledObservations |->
               [Amount |-> p.n_obs_unlabeled,
                Percentage |-> Percentage(p.n_obs_unlabeled, p.n_obs)]])

File(stem, readable, columns, rows) ==
    [name |-> stem \o PARQUET_EXTENSION, readable |-> readable,
     table |-> Table("timestamp", Tuple([k \in 1..Len(rows) |-> k], Len(rows)),
                     columns, rows)]

\* The instances of the bulk calls: two well-formed files, a readable file
\* without the state column, a file without rows whose name has no id, and a
\* file that cannot be read
BulkInstances ==
    { [label |-> 0,
       fp |-> File(<<"W", "_", "1">>, TRUE, Tail(COLUMNS_DATA_FILES),
                   << <<{1}, {}, {0}>>, <<{1}, {}, {}>> >>)],
      [label |-> 3,
       fp |-> File(<<"SIMULATED", "_", "2">>, TRUE, Tail(COLUMNS_DATA_FILES),
                   << <<{1}, {2}, {103}>> >>)],
      [label |-> 3,
       fp |-> File(<<"W", "_", "3">>, TRUE, <<"P-PDG", "class">>, << <<{2}, {3}>> >>)],
      [label |-> 0,
       fp |-> File(<<"W">>, TRUE, Tail(COLUMNS_DATA_FILES), <<>>)],
      [label |-> 0,
       fp |-> File(<<"W", "_", "4">>, FALSE, <<>>, <<>>)] }

\* The files counted one at a time: up to MaxCountRows rows of two sensors
\* and a class
MaxCountRows == 2

CountRows ==
    {<<a, b, c>> : a \in {{}, {1}, {2}}, b \in {{}, {1}}, c \in {{}, {0}}}

CountInstances ==
    {[label |-> 0, fp |-> File(<<"W", "_", "1">>, TRUE, Tail(COLUMNS_DATA_FILES), rows)] :
        rows \in UNION {[1..n -> CountRows] : n \in 0..MaxCountRows}}

InstanceLists == UNION {[1..n -> BulkInstances] : n \in 0..MaxInstances}

\* A call of the module: the function and its argument lists
Call(op, args) == [op |-> op, args |-> args]

\* The list a call hands to imap_unordered; calc_stats_instances hands
\* real_instances + simulated_instances + drawn_instances
RECURSIVE Flatten(_)
Flatten(args) == IF args = <<>> THEN <<>> ELSE Head(args) \o Flatten(Tail(args))

Instances(c) == Flatten(c.args)

OneOrNone == {l \in InstanceLists : Len(l) <= 1}

\* The lists that name no instance twice
InstanceSets ==
    {l \in InstanceLists : \A j, k \in 1..Len(l) : l[j] = l[k] => j = k}

\* What the caller does: one load, one statistics table over lists of at most
\* one instance each, the counts of a set of instances and of two parts
\* that make it up, or the count of one file
Plans ==
    {<<Call("load", <<l>>)>> : l \in InstanceLists}
    \cup {<<Call("stats", <<r, s, d>>)>> :
             r \in OneOrNone, s \in OneOrNone, d \in OneOrNone}
    \cup {<<Call("count", <<a \o b>>), Call("count", <<a>>), Call("count", <<b>>)>> :
             a \in InstanceSets, b \in InstanceSets}

BulkPlans ==
    {plan \in Plans : Instances(plan[1]) \in InstanceLists
                      /\ (Len(plan) > 1 => Instances(plan[1]) \in InstanceSets)}
    \cup {<<Call("count", <<<<x>>>>)>> : x \in CountInstances}

\* The call being made and its list of instances
Current == call.plan[call.at]
Tasks == Instances(Current)

\* func(instance), as a worker computes it
TaskResult(i) ==
    IF Current.op = "load" THEN load_instance(Tasks[i])
    ELSE count_properties_instance(Tasks[i])

\* The queue sentinel, where tasks are numbered from 1
None == 0

NoPool ==
    [state |-> "NONE", next_task |-> 1, length_set |-> FALSE, inqueue |-> <<>>,
     running |-> {}, exited |-> 0, items |-> <<>>, index |-> 0, failure |-> <<>>]

\* ThreadPool() followed by imap_unordered: Processes worker threads, which
\* run the same code and are told apart only by the task they run, wait on
\* the input queue and the task handler has the task generator
ThreadPool == [NoPool EXCEPT !.state = "RUN"]

\* The worker threads that wait on the input queue
Waiting(p) == Processes - Cardinality(p.running) - p.exited

\* The places where a task that the task handler was putting when the pool
\* was terminated can land among the sentinels; NoLanding when it was not
\* putting one
NoLanding == 0 - 1

InFlight(p) ==
    IF p.next_task <= Len(Tasks) THEN {NoLanding} \cup (0..(Processes - 1))
    ELSE {NoLanding}

\* pool.terminate(): the handlers stop, the input queue is emptied and gets
\* one sentinel per worker; the worker threads are not waited for
Terminate(p, landing) ==
    LET sentinels == Tuple([w \in 1..Processes |-> None], Processes)
    IN [p EXCEPT !.state = "TERMINATE",
                 !.next_task = IF landing = NoLanding THEN @ ELSE @ + 1,
                 !.inqueue = IF landing = NoLanding THEN sentinels
                             ELSE SubSeq(sentinels, 1, landing) \o <<p.next_task>>
                                  \o SubSeq(sentinels, landing + 1, Processes)]

\* What the call returns once every result is collected
Finish(op, results) ==
    IF op = "load" THEN Concat(results)
    ELSE IF op = "count" THEN Returned(SumCounters(results))
    ELSE calc_stats(SumCounters(results))

BulkFrame == UNCHANGED <<catVars, rdVars, rsVars>>

BulkInit ==
    /\ call \in [plan : BulkPlans, at : {1}]
    /\ pool = NoPool
    /\ collected = <<>>
    /\ outcome = <<>>
    /\ corpus = Idle /\ gen = Idle /\ pass = Idle /\ lists = Idle
    /\ rd_instance = Idle /\ rd_result = Idle
    /\ data = Idle /\ rs_args = Idle /\ rs_calls = Idle /\ rs_input = Idle

\* The caller enters the next function of its plan, unless the one before
\* raised: pool = ThreadPool(); dfs = []; pool.imap_unordered(...)
StartCall ==
    /\ call.at <= Len(call.plan)
    /\ pool.state # "RUN"
    /\ Len(outcome) = call.at - 1
    /\ \A k \in 1..Len(outcome) : outcome[k].kind = "returned"
    /\ pool' = ThreadPool
    /\ collected' = <<>>
    /\ UNCHANGED <<call, outcome>>
    /\ BulkFrame

\* Pool._handle_tasks: the task handler puts the next task on the input queue
HandleTask ==
    /\ pool.state = "RUN"
    /\ pool.next_task <= Len(Tasks)
    /\ pool' = [pool EXCEPT !.inqueue = Append(@, pool.next_task), !.next_task = @ + 1]
    /\ UNCHANGED <<call, collected, outcome>>
    /\ BulkFrame

\* Pool._handle_tasks after the last task: the iterator learns its length
SetLength ==
    /\ pool.state = "RUN"
    /\ pool.next_task > Len(Tasks)
    /\ ~pool.length_set
    /\ pool' = [pool EXCEPT !.length_set = TRUE]
    /\ UNCHANGED <<call, collected, outcome>>
    /\ BulkFrame

\* worker(): a waiting thread takes the head of the input queue, a task to
\* run or the sentinel that makes it exit
WorkerGet ==
    /\ pool.state # "NONE"
    /\ Waiting(pool) > 0
    /\ pool.inqueue # <<>>
    /\ pool' = [pool EXCEPT !.inqueue = Tail(@),
                            !.running = @ \cup (Range(<<Head(pool.inqueue)>>) \ {None}),
                            !.exited = IF Head(pool.inqueue) = None THEN @ + 1 ELSE @]
    /\ UNCHANGED <<call, collected, outcome>>
    /\ BulkFrame

\* worker() and Pool._handle_results: the thread finishes task i and the
\* result handler, which keeps the order of the results, hands the result
\* to the iterator; after terminate() nobody reads the result
WorkerPut(i) ==
    /\ pool.state # "NONE"
    /\ i \in pool.running
    /\ pool' = [pool EXCEPT !.running = @ \ {i},
                            !.items = IF pool.state = "RUN" THEN Append(@, i) ELSE @,
                            !.index = IF pool.state = "RUN" THEN @ + 1 ELSE @]
    /\ UNCHANGED <<call, collected, outcome>>
    /\ BulkFrame

\* for df in ...: next() hands over a result that is a value; dfs.append(df)
CollectResult ==
    /\ pool.state = "RUN"
    /\ pool.failure = <<>>
    /\ pool.items # <<>>
    /\ TaskResult(Head(pool.items)).kind = "returned"
    /\ pool' = [pool EXCEPT !.items = Tail(@)]
    /\ collected' = Append(collected, TaskResult(Head(pool.items)).value)
    /\ UNCHANGED <<call, outcome>>
    /\ BulkFrame

\* A loop that drops the result of a task that raised and goes on
SkipFailure ==
    /\ pool.state = "RUN"
    /\ pool.failure = <<>>
    /\ pool.items # <<>>
    /\ TaskResult(Head(pool.items)).kind = "raised"
    /\ pool' = [pool EXCEPT !.items = Tail(@)]
    /\ UNCHANGED <<call, collected, outcome>>
    /\ BulkFrame

\* for df in ...: next() raises the exception of a task, which takes the
\* main thread out of the loop; the other threads run on until the finally
\* clause has terminated the pool
ObserveFailure ==
    /\ pool.state = "RUN"
    /\ pool.failure = <<>>
    /\ pool.items # <<>>
    /\ TaskResult(Head(pool.items)).kind = "raised"
    /\ pool' = [pool EXCEPT !.items = Tail(@), !.failure = <<Head(pool.items)>>]
    /\ UNCHANGED <<call, collected, outcome>>
    /\ BulkFrame

\* finally: pool.terminate(), and the exception leaves the function
TerminateOnFailure ==
    /\ pool.state = "RUN"
    /\ pool.failure # <<>>
    /\ \E landing \in InFlight(pool) : pool' = Terminate(pool, landing)
    /\ outcome' = Append(outcome, TaskResult(pool.failure[1]))
    /\ call' = [call EXCEPT !.at = @ + 1]
    /\ UNCHANGED collected
    /\ BulkFrame

\* A loop that ends as soon as no result waits, before every task is done
FinishCallEarly ==
    /\ pool.state = "RUN"
    /\ pool.failure = <<>>
    /\ pool.items = <<>>
    /\ pool.length_set
    /\ pool' = Terminate(pool, NoLanding)
    /\ outcome' = Append(outcome, Finish(Current.op, collected))
    /\ call' = [call EXCEPT !.at = @ + 1]
    /\ UNCHANGED collected
    /\ BulkFrame

\* for df in ...: next() raises StopIteration when every result was handed
\* over; finally: pool.terminate(), and the function returns or raises
FinishCall ==
    /\ pool.state = "RUN"
    /\ pool.failure = <<>>
    /\ pool.items = <<>>
    /\ pool.length_set
    /\ pool.index = Len(Tasks)
    /\ pool' = Terminate(pool, NoLanding)
    /\ outcome' = Append(outcome, Finish(Current.op, collected))
    /\ call' = [call EXCEPT !.at = @ + 1]
    /\ UNCHANGED collected
    /\ BulkFrame

BulkNext ==
    \/ StartCall
    \/ HandleTask
    \/ SetLength
    \/ WorkerGet
    \/ \E i \in 1..MaxInstances : WorkerPut(i)
    \/ CollectResult
    \/ ObserveFailure
    \/ TerminateOnFailure
    \/ FinishCall

SpecBulk == BulkInit /\ [][BulkNext]_vars

\* The caller's plan is one call of the function op
PlanIs(op) == Len(call.plan) = 1 /\ call.plan[1].op = op

\* The instances of the first call that load_instance cannot load
Corrupt == {x \in Range(Instances(call.plan[1])) : load_instance(x).kind = "raised"}

\* C1: a bulk load over a list with an instance that cannot be loaded
\* (unreadable file, name without id, wrong columns) never returns a table,
\* whatever the order in which the workers complete: while it has no outcome
\* a result waits for the loop, a worker runs a task or another step can be
\* taken, and its outcome is the error of one of those instances.
FailFastLoad ==
    PlanIs("load") =>
        \/ /\ outcome = <<>> =>
                 (pool.items # <<>> \/ pool.running # {} \/ ENABLED BulkNext)
           /\ \A k \in 1..Len(outcome) :
                 /\ outcome[k].kind = "raised"
                 /\ outcome[k] \in {load_instance(x) : x \in Corrupt}
        \/ Corrupt = {}

\* A bulk load that raised after an instance of the list did load
FailFastLoadWitness ==
    /\ PlanIs("load")
    /\ Corrupt # {}
    /\ collected # <<>>
    /\ Len(outcome) = 1
    /\ outcome[1].kind = "raised"

\* C6: the statistics over three empty instance lists fail with an
\* EmptyInputError and with no other outcome.
EmptyInputRaisesEmptyInputError ==
    (PlanIs("stats") /\ Instances(call.plan[1]) = <<>> /\ outcome # <<>>) =>
        /\ outcome[1].kind = "raised"
        /\ outcome[1].type = "EmptyInputError"

\* The caller counted a set of instances and two parts that make it up
CountedParts ==
    /\ Len(call.plan) = 3
    /\ Len(outcome) = 3
    /\ \A k \in 1..3 : outcome[k].kind = "returned"

\* p.get(key, 0)
Counter(p, key) == IF key \in DOMAIN p THEN p[key] ELSE 0

\* C7: the counters of two disjoint instance sets taken together are, key by
\* key over the five counters, the sums of the counters of each set, where a
\* key absent from a result counts as zero.
AggregatorAdditive ==
    CountedParts =>
        \A key \in {"n_vars", "n_vars_missing", "n_vars_frozen", "n_obs", "n_obs_unlabeled"} :
            Counter(outcome[1].value, key) =
                Counter(outcome[2].value, key) + Counter(outcome[3].value, key)

\* The counts of two non-empty parts, all five counters of the whole positive
AggregatorAdditiveWitness ==
    /\ CountedParts
    /\ Instances(call.plan[2]) # <<>>
    /\ Instances(call.plan[3]) # <<>>
    /\ \A key \in DOMAIN outcome[1].value : outcome[1].value[key] > 0

\* C11: once the call has observed the first failed task, no task that has
\* not started is started, and the call ends by raising that failure, with
\* no value returned and the pool terminated.
CancellationOnFirstFailure ==
    [][pool.failure # <<>> =>
          /\ pool'.running \subseteq pool.running
          /\ Len(outcome') > Len(outcome) =>
                /\ outcome'[Len(outcome')] = TaskResult(pool.failure[1])
                /\ outcome'[Len(outcome')].kind = "raised"
                /\ pool'.state = "TERMINATE"]_vars

\* What the function of the call c makes of one instance
Contribution(c, x) ==
    IF c.op = "load" THEN load_instance(x) ELSE count_properties_instance(x)

AllSucceed(c) ==
    \A x \in Range(Instances(c)) : Contribution(c, x).kind = "returned"

\* The contributions of the requested instances, in the order of the request
Contributions(c) ==
    Tuple([k \in 1..Len(Instances(c)) |-> Contribution(c, Instances(c)[k]).value],
          Len(Instances(c)))

\* The rows of a table, each with its index value
TableRows(t) == Tuple([k \in 1..Len(t.rows) |-> <<t.index[k], t.rows[k]>>], Len(t.rows))

Occurrences(seq, x) == Cardinality({k \in 1..Len(seq) : seq[k] = x})

SameMultiset(a, b) ==
    /\ Len(a) = Len(b)
    /\ \A x \in Range(a) : Occurrences(a, x) = Occurrences(b, x)

\* The value holds what every requested instance contributes, exactly once
Complete(c, value) ==
    IF c.op = "load"
    THEN LET parts == Contributions(c)
         IN /\ \A k \in 1..Len(parts) : value.columns = parts[k].columns
            /\ SameMultiset(TableRows(value),
                            Flatten(Tuple([k \in 1..Len(parts) |-> TableRows(parts[k])],
                                          Len(parts))))
    ELSE \A key \in {"n_vars", "n_vars_missing", "n_vars_frozen", "n_obs", "n_obs_unlabeled"} :
            Counter(value, key) = SumKey(Contributions(c), key)

\* The first call of the plan is a load or a count, has ended, and all its
\* tasks succeed
SucceedingBulkCallEnded ==
    /\ call.plan[1].op \in {"load", "count"}
    /\ AllSucceed(call.plan[1])
    /\ Len(outcome) >= 1

\* C12 as stated: for every instance list whose tasks all succeed, in every
\* completion order, the call returns a result that holds the contribution of
\* every requested instance exactly once.
OrderIndependentComplete ==
    SucceedingBulkCallEnded =>
        /\ outcome[1].kind = "returned"
        /\ Complete(call.plan[1], outcome[1].value)

\* C12 amended: the same for every instance list that is not empty when the
\* call is a load.
OrderIndependentCompleteNonEmptyLoad ==
    (SucceedingBulkCallEnded
     /\ (call.plan[1].op = "load" => Instances(call.plan[1]) # <<>>)) =>
        /\ outcome[1].kind = "returned"
        /\ Complete(call.plan[1], outcome[1].value)

\* A load of distinct instances returned their rows in another order than
\* the order of the request
OrderIndependentCompleteWitness ==
    /\ SucceedingBulkCallEnded
    /\ call.plan[1].op = "load"
    /\ outcome[1].kind = "returned"
    /\ TableRows(outcome[1].value) #
          Flatten(Tuple([k \in 1..Len(Instances(call.plan[1])) |->
                            TableRows(Contributions(call.plan[1])[k])],
                        Len(Instances(call.plan[1]))))

\* One file was counted, and collected holds what count_properties_instance
\* returned for it
CountedOne ==
    /\ PlanIs("count")
    /\ Len(Instances(call.plan[1])) = 1
    /\ collected # <<>>

CountedTable == Instances(call.plan[1])[1].fp.table

\* The cells of the k-th column of a table
Cells(t, k) == Tuple([r \in 1..Len(t.rows) |-> t.rows[r][k]], Len(t.rows))

NonNull(cells) == Range(cells) \ {{}}

\* C13 as stated: n_vars_missing is the number of columns other than class
\* whose values are all null, and n_vars_frozen the number of columns other
\* than class with exactly one distinct value once the nulls are left out.
CounterDefinitions ==
    CountedOne =>
        LET t == CountedTable
            NonClass == {k \in 1..Len(t.columns) : t.columns[k] # "class"}
        IN /\ collected[1].n_vars_missing =
                 Cardinality({k \in NonClass : NonNull(Cells(t, k)) = {}})
           /\ collected[1].n_vars_frozen =
                 Cardinality({k \in NonClass : Cardinality(NonNull(Cells(t, k))) = 1})

\* C13 amended: n_vars_missing as stated, and n_vars_frozen the number of
\* columns other than class with at least one row and the same non-null
\* value in every row.
CounterDefinitionsNoNullInFrozen ==
    CountedOne =>
        LET t == CountedTable
            NonClass == {k \in 1..Len(t.columns) : t.columns[k] # "class"}
        IN /\ collected[1].n_vars_missing =
                 Cardinality({k \in NonClass : NonNull(Cells(t, k)) = {}})
           /\ collected[1].n_vars_frozen =
                 Cardinality({k \in NonClass :
                     /\ t.rows # <<>>
                     /\ \E v \in NonNull(Cells(t, k)) :
                           \A r \in 1..Len(t.rows) : t.rows[r][k] = v})

\* A counted file with a column of one value and a null, a column of one
\* value in every row, and no column counted as missing
CounterDefinitionsWitness ==
    /\ CountedOne
    /\ CountedTable.columns = Tail(COLUMNS_DATA_FILES)
    /\ Range(Cells(CountedTable, 1)) = {{}, {2}}
    /\ Range(Cells(CountedTable, 2)) = {{1}}
    /\ collected[1].n_vars_frozen = 1
    /\ collected[1].n_vars_missing = 0

\* No amount above its denominator
WithinBounds(p) ==
    /\ Counter(p, "n_vars_missing") + Counter(p, "n_vars_frozen") <= Counter(p, "n_vars")
    /\ Counter(p, "n_obs_unlabeled") <= Counter(p, "n_obs")

\* C17: no column of a counted file is both missing and frozen, the counters
\* that count_properties_instance returns for a file, also one without rows,
\* keep n_vars_missing + n_vars_frozen <= n_vars and n_obs_unlabeled <= n_obs,
\* and so do the totals that count_properties_instances returns for a
\* non-empty list.
CounterBounds ==
    (call.plan[1].op = "count" /\ Instances(call.plan[1]) # <<>>) =>
        /\ \A x \in Range(Instances(call.plan[1])) :
              x.fp.readable =>
                 LET df == x.fp.table
                     variables == SubSeq(df.columns, 1, Len(df.columns) - 1)
                 IN MissingVariables(df, variables) \cap FrozenVariables(df, variables) = {}
        /\ \A k \in 1..Len(collected) : WithinBounds(collected[k])
        /\ \A k \in 1..Len(outcome) :
              outcome[k].kind = "returned" => WithinBounds(outcome[k].value)

\* The totals of a list with a file without rows and a file that has a
\* missing and a frozen column
CounterBoundsWitness ==
    /\ call.plan[1].op = "count"
    /\ Len(outcome) >= 1
    /\ outcome[1].kind = "returned"
    /\ \E j, k \in 1..Len(collected) :
          /\ collected[j].n_obs = 0
          /\ collected[k].n_vars_missing > 0
          /\ collected[k].n_vars_frozen > 0
    /\ outcome[1].value.n_vars_missing + outcome[1].value.n_vars_frozen
          = outcome[1].value.n_vars

\* C14: resample leaves the caller's table as it was (same index, same
\* columns, same values), and two calls in a row on the same table object
\* with the same arguments return the same table; stated for the tables with
\* rows and the block sizes from 1 to the number of rows.
ResamplePure ==
    (/\ rs_calls # Idle
     /\ rs_calls # <<>>
     /\ rs_args.n >= 1
     /\ rs_args.n <= Len(rs_input.rows)) =>
        /\ data.frame = rs_input
        /\ \A j, k \in 1..Len(rs_calls) : rs_calls[j] = rs_calls[k]

\* The input rows k*n .. min((k+1)*n, N) - 1 of output row k, counted from 1
ClaimedBlock(k) ==
    LET n == rs_args.n
        N == Len(rs_input.rows)
        last == IF (k + 1) * n < N THEN (k + 1) * n ELSE N
    IN Tuple([r \in 1..(last - k * n) |-> k * n + r], last - k * n)

\* C15: for a table of N rows and 1 <= n <= N every call returns
\* ceil(N / n) rows, and output row k has the largest timestamp, the mean of
\* the sensor values and a label of the input rows k*n .. min((k+1)*n, N) - 1.
BlockStructure ==
    (/\ rs_calls # Idle
     /\ rs_calls # <<>>
     /\ rs_args.n >= 1
     /\ rs_args.n <= Len(rs_input.rows)) =>
        \A j \in 1..Len(rs_calls) :
            LET n == rs_args.n
                N == Len(rs_input.rows)
                out == rs_calls[j].value
            IN /\ rs_calls[j].kind = "returned"
               /\ Len(out.rows) = (N + n - 1) \div n
               /\ Len(out.index) = (N + n - 1) \div n
               /\ \A k \in 0..(((N + n - 1) \div n) - 1) :
                     LET block == ClaimedBlock(k)
                         sensors == Column(rs_input, "P-PDG")
                         present == {r \in Range(block) : sensors[r] # {}}
                     IN /\ out.index[k + 1] = Max({rs_input.index[r] : r \in Range(block)})
                        /\ out.rows[k + 1][ColumnPosition(out.columns, "P-PDG")] =
                              IF present = {} THEN {}
                              ELSE {Fraction(BlockSum(sensors, block), Cardinality(present))}
                        /\ ResampledLabel(rs_calls[j], k + 1) \subseteq
                              {Float(l) : l \in BlockLabels(block)}

\* A call has resampled three rows in blocks of two: a block of two rows
\* with different sensor values, and a last block of one row
BlockStructureWitness ==
    /\ rs_calls # Idle
    /\ Len(rs_calls) >= 1
    /\ rs_args.n = 2
    /\ Len(rs_input.rows) = 3
    /\ Column(rs_input, "P-PDG")[1] # Column(rs_input, "P-PDG")[2]
    /\ rs_calls[1].kind = "returned"
    /\ Len(rs_calls[1].value.rows) = 2
    /\ rs_calls[1].value.index = <<2, 3>>

\* C16: when a consumer closes the generator after it received a pair, at
\* whatever directory and file the enumeration is, close() raises no error
\* and the generator yields no pair after the close request.
CloseEndsEnumeration ==
    (pass \in 1..Len(PassFlags) /\ gen.closed # "") =>
        /\ gen.closed = "returned"
        /\ gen.late = <<>>

====
